---- MODULE Spec2Model ----
(***************************************************************************)
(* Model of the job-scraping pipeline of gabi939/wsc.                      *)
(*                                                                         *)
(* Spec models one DataProcessor.run (src/consumer/data_processor.py) on   *)
(* top of Scrapper.scrape / Scrapper._fetch_page                           *)
(* (src/shared/scrapper/scrapper.py).  Every await point of the coroutines *)
(* is a step boundary; everything between two await points is one action.  *)
(* Time is in whole seconds.                                               *)
(*                                                                         *)
(* SpecProducer models ScraperPublisher.run (listing mode), SpecScrapper   *)
(* one Scrapper used by a free caller, SpecExtract extract_positions and   *)
(* SpecClassify extract_job_info with the classifier, both on bounded sets *)
(* of pages.                                                               *)
(* SpecHub (SpecHubFair with fairness) models EventsConsumer.consume and   *)
(* SpecParquet the encoding and decoding of the position lists             *)
(* (src/shared/parquet_tools.py).                                          *)
(***************************************************************************)
EXTENDS Integers, Sequences, FiniteSets, TLC

VARIABLES
    inputEvents,        \* what the event hub holds: number of titles of each event
    events,             \* list returned by consumer.consume()
    batch_count,        \* DataProcessor.run: batch_count
    data,               \* DataProcessor.run: len(data) of the current batch
    pc,                 \* position of DataProcessor.run / _scrape_job_info
    idx,                \* _scrape_job_info: 1-based position of the loop
    positions_metadata, \* _scrape_job_info: positions_metadata
    results,            \* what scrape returned for each finished title of the batch
    fetchLog,           \* how the fetch of each finished title of the batch ended
    attemptsLog,        \* attempts made for each finished title of the batch
    runError,           \* exception propagating out of run ("none" if none)
    uploads,            \* batches whose upload completed, in order
    blobs,              \* blob names present in the container
    scrapePc,           \* position of Scrapper.scrape / _fetch_page
    scrapeResult,       \* value returned by the last finished scrape call
    session,            \* Scrapper.session (NoSession models None)
    sessionsCreated,    \* number of ClientSession objects constructed so far
    openSessions,       \* sessions constructed and not yet closed
    attempt_number,     \* tenacity retry_state.attempt_number of the running call
    errHistory,         \* errors of the attempts of the running _fetch_page call
    waits,              \* backoff delays slept by the running _fetch_page call
    fetchError,         \* error the last _fetch_page call raised (NoError if none)
    sleepsThisCall,     \* rate-limit sleeps done by the running scrape call
    sinceFirst,         \* seconds since the latest first attempt (-1: none yet)
    gap,                \* sinceFirst observed when the latest first attempt began
    inflight,           \* scrape calls started and not yet returned
    pubPc,              \* position of ScraperPublisher.run
    pubError,           \* exception ScraperPublisher.run raised (NoError if none)
    published,          \* position lists sent to the event hub, in order
    apiOps,             \* calls made on the Scrapper by a free caller
    apiLast,            \* the latest of these calls
    extractorOut,       \* how the extractor of the running scrape call ended
    extractorValue,     \* what the extractor of the running scrape call returned
    purePc,             \* "input" before and "done" after an extractor call
    page,               \* listing page given to extract_positions
    positions,          \* list returned by extract_positions
    html,               \* detail page given to extract_job_info
    job,                \* dict returned by extract_job_info
    hubPc,              \* position of EventsConsumer.consume
    collected_data,     \* EventsConsumer.collected_data
    hubCalls,           \* consume calls started on the EventsConsumer
    hubReturned,        \* list the latest finished consume call returned
    lastBatch,          \* len(events) of the latest callback of the running call
    pqPc,               \* position of the encode / decode of a position list
    parquet_data,       \* what create_parquet returned
    records             \* what read_parquet returned

vars == << inputEvents, events, batch_count, data, pc, idx, positions_metadata,
           results, fetchLog, attemptsLog, runError, uploads, blobs, scrapePc,
           scrapeResult,
           session, sessionsCreated, openSessions, attempt_number, errHistory,
           waits, fetchError, sleepsThisCall, sinceFirst, gap, inflight,
           pubPc, pubError, published, apiOps, apiLast, extractorOut,
           extractorValue, purePc, page, positions, html, job, hubPc,
           collected_data, hubCalls, hubReturned, lastBatch, pqPc,
           parquet_data, records >>

(***************************************************************************)
(* Bounds of the model                                                     *)
(***************************************************************************)
MaxEvents == 2          \* events returned by one consume()
MaxTitles == 2          \* position records per event
MaxNetDelay == 1        \* seconds one HTTP attempt may take
scrape_rate_limit == 1  \* config consumer.scrapper.scrape_rate_limit

(***************************************************************************)
(* Program constants                                                       *)
(***************************************************************************)
MaxAttempts == 3        \* stop_after_attempt(3)
WaitMultiplier == 1     \* wait_exponential(multiplier=1, ...)
WaitMin == 2            \* wait_exponential(..., min=2, ...)
WaitMax == 10           \* wait_exponential(..., max=10)
ExpBase == 2            \* tenacity default exp_base

NoSession == 0
\* Python None as a scrape result; a record, to be comparable with results.
None == [title |-> 0, batch |-> 0]
\* No exception.
NoError == [kind |-> "none", attempt |-> 0]

\* Outcomes of one `async with self.session.get(url)` + raise_for_status():
\*   ok         2xx response, body read
\*   network    aiohttp.ClientConnectionError (an aiohttp.ClientError)
\*   http       aiohttp.ClientResponseError from raise_for_status()
\*              (an aiohttp.ClientError)
\*   timeout    asyncio.TimeoutError
\*   unexpected any other Exception
ErrorKinds == {"network", "http", "timeout", "unexpected"}
AttemptOutcomes == {"ok"} \cup ErrorKinds

Max(a, b) == IF a >= b THEN a ELSE b
Min(a, b) == IF a <= b THEN a ELSE b

RECURSIVE Pow(_, _)
Pow(b, e) == IF e <= 0 THEN 1 ELSE b * Pow(b, e - 1)

(***************************************************************************)
(* tenacity policy of Scrapper._fetch_page (scrapper.py:80-85)             *)
(***************************************************************************)
\* An error of one attempt: its kind and the attempt that raised it.
Error(kind, n) == [kind |-> kind, attempt |-> n]

\* isinstance(e, aiohttp.ClientError): connection errors and the
\* ClientResponseError of raise_for_status() both derive from ClientError.
IsClientError(kind) == kind \in {"network", "http"}

\* Variant: every exception is retried.
retry_any_exception(kind) == kind \in ErrorKinds

\* Variant: only connection errors and timeouts are retried.
retry_transport_only(kind) == kind \in {"network", "timeout"}

\* retry=retry_if_exception_type((aiohttp.ClientError, asyncio.TimeoutError))
retry_if_exception_type(kind) == IsClientError(kind) \/ kind = "timeout"

\* Variant: off by one, stops only after a fourth attempt.
stop_after_fourth(n) == n >= MaxAttempts + 1

\* stop=stop_after_attempt(3): stop when attempt_number >= 3
stop_after_attempt(n) == n >= MaxAttempts

\* Variant: the floor `min` is not applied.
wait_without_floor(n) == Min(WaitMultiplier * Pow(ExpBase, n - 1), WaitMax)

\* Variant: the exponent is the attempt number, not the attempt number - 1.
wait_from_two(n) ==
    Max(Max(0, WaitMin), Min(WaitMultiplier * Pow(ExpBase, n), WaitMax))

\* wait=wait_exponential(multiplier=1, min=2, max=10), evaluated after the
\* failed attempt n:  max(max(0, min), min(multiplier * 2 ** (n - 1), max))
wait_exponential(n) ==
    Max(Max(0, WaitMin), Min(WaitMultiplier * Pow(ExpBase, n - 1), WaitMax))

\* Variant: the attempt counter goes on from where the previous call ended.
retry_state_kept(previous) == Max(1, previous)

\* tenacity builds a new RetryCallState for every call of the decorated
\* _fetch_page: attempt_number is 1 whatever earlier calls did.
new_retry_state(previous) == 1

\* Variant: the exception of the first attempt is raised.
reraise_first(hist) == hist[1]

\* reraise=True: on giving up, the exception of the last attempt is raised.
reraise(hist) == hist[Len(hist)]

(***************************************************************************)
(* Scrapper (scrapper.py)                                                  *)
(***************************************************************************)
\* Variant: the delay taken as milliseconds, which is no whole second.
no_rate_limit_sleep == scrape_rate_limit \div 1000

\* The sleep of Scrapper.scrape before the fetch (scrapper.py:158).
rate_limit_sleep == scrape_rate_limit

\* Variant: close leaves the session in place.
close_keeps_session(sess) == sess

\* Scrapper.close (scrapper.py:176-189): the value of self.session afterwards.
close(sess) == IF sess # NoSession THEN NoSession ELSE sess

\* Sessions still open after Scrapper.close.
closeOpen(sess, open) == IF sess # NoSession THEN open \ {sess} ELSE open

\* Variant: the loop goes on as soon as the scrape call was started.
ScrapeNotAwaited == scrapePc # "idle"

\* `await self.scraper.scrape(...)` (data_processor.py:109): the loop body
\* resumes only when the scrape call has returned.
AwaitScrape == scrapePc = "returned"

\* Variant: the metadata is appended whatever it is.
AppendAlways(out, metadata) == Append(out, metadata)

\* data_processor.py:114-118: append the metadata when it is truthy.
AppendIfData(out, metadata) ==
    IF metadata # None THEN Append(out, metadata) ELSE out

ScrapeActive == scrapePc \in {"sleep", "fetch", "backoff", "fetch_raised", "extract"}

(***************************************************************************)
(* Initial state: a constructed DataProcessor (data_processor.py:33-73,    *)
(* scrapper.py:35-59), run not yet started.                                *)
(***************************************************************************)
\* No ScraperPublisher, no free caller and no extractor call in this run.
NoValue == [positions |-> << >>, raised |-> TRUE]
NoPage == [container |-> FALSE, anchors |-> << >>]
NoHtml == [hasH1 |-> FALSE, h1 |-> "", body |-> "", requirements |-> << >>, responsibilities |-> << >>]
NoJob == [title |-> "-"]
PublisherIdle == pubPc = "none" /\ pubError = NoError /\ published = << >>
ApiIdle == apiOps = 0 /\ apiLast = "none" /\ extractorOut = "none" /\ extractorValue = NoValue
PureIdle == purePc = "none" /\ page = NoPage /\ positions = << >> /\ html = NoHtml /\ job = NoJob
\* No EventsConsumer of its own and no parquet conversion in this run.
NoBytes == [table |-> << >>, valid |-> FALSE]
HubIdle ==
    /\ hubPc = "none"
    /\ collected_data = << >>
    /\ hubCalls = 0
    /\ hubReturned = << >>
    /\ lastBatch = -1
ParquetIdle == pqPc = "none" /\ parquet_data = NoBytes /\ records = << >>
LibIdle == HubIdle /\ ParquetIdle

EventLists == UNION { [1..n -> 0..MaxTitles] : n \in 0..MaxEvents }

Init ==
    /\ inputEvents \in EventLists
    /\ events = << >>
    /\ batch_count = 0
    /\ data = 0
    /\ pc = "consume"
    /\ idx = 0
    /\ positions_metadata = << >>
    /\ results = << >>
    /\ fetchLog = << >>
    /\ attemptsLog = << >>
    /\ runError = "none"
    /\ uploads = << >>
    /\ blobs = {}
    /\ scrapePc = "idle"
    /\ scrapeResult = None
    /\ session = NoSession
    /\ sessionsCreated = 0
    /\ openSessions = {}
    /\ attempt_number = 0
    /\ errHistory = << >>
    /\ waits = << >>
    /\ fetchError = NoError
    /\ sleepsThisCall = 0
    /\ sinceFirst = -1
    /\ gap = -1
    /\ inflight = 0
    /\ PublisherIdle
    /\ ApiIdle
    /\ PureIdle
    /\ LibIdle

\* A constructed Scrapper on which nothing was called (scrapper.py:35-59).
ScrapperFresh ==
    /\ scrapePc = "idle"
    /\ scrapeResult = None
    /\ session = NoSession
    /\ sessionsCreated = 0
    /\ openSessions = {}
    /\ attempt_number = 0
    /\ errHistory = << >>
    /\ waits = << >>
    /\ fetchError = NoError
    /\ sleepsThisCall = 0
    /\ sinceFirst = -1
    /\ gap = -1
    /\ inflight = 0

\* No DataProcessor in this run.
ConsumerIdle ==
    /\ inputEvents = << >>
    /\ events = << >>
    /\ batch_count = 0
    /\ data = 0
    /\ pc = "none"
    /\ idx = 0
    /\ positions_metadata = << >>
    /\ results = << >>
    /\ fetchLog = << >>
    /\ attemptsLog = << >>
    /\ runError = "none"
    /\ uploads = << >>
    /\ blobs = {}

runVars == << events, batch_count, data, pc, idx, positions_metadata, results,
              fetchLog, attemptsLog, runError, uploads, blobs >>
scrapeVars == << scrapePc, scrapeResult, attempt_number, errHistory, waits,
                 fetchError, sleepsThisCall, sinceFirst, gap, inflight >>
sessionVars == << session, sessionsCreated, openSessions >>
pubVars == << pubPc, pubError, published >>
apiVars == << apiOps, apiLast, extractorOut, extractorValue >>
pureVars == << purePc, page, positions, html, job >>
hubVars == << hubPc, collected_data, hubCalls, hubReturned, lastBatch >>
parquetVars == << pqPc, parquet_data, records >>
libVars == << hubVars, parquetVars >>
\* The variables DataProcessor.run never touches.
otherVars == << pubVars, apiVars, pureVars, libVars >>

(***************************************************************************)
(* DataProcessor.run (data_processor.py:129-183)                           *)
(***************************************************************************)
\* Variant: the for loop ends after the first event.
FirstBatchOnly(n) == IF n < Min(1, Len(events)) THEN "read_parquet" ELSE "finally"

\* The next batch of the for loop over the consumed list, or its end.
NextBatch(n) == IF n < Len(events) THEN "read_parquet" ELSE "finally"

\* run:150, self.consumer.consume(): returns the collected events or raises.
Consume ==
    /\ pc = "consume"
    /\ \/ /\ events' = inputEvents
          /\ pc' = IF Len(inputEvents) > 0 THEN "read_parquet" ELSE "finally"
          /\ UNCHANGED runError
       \/ /\ runError' = "consume"
          /\ pc' = "finally"
          /\ UNCHANGED events
    /\ UNCHANGED << otherVars, inputEvents, batch_count, data, idx, positions_metadata,
                    results, fetchLog, attemptsLog, uploads, blobs >>
    /\ UNCHANGED << scrapeVars, sessionVars >>

\* run:151-159: read_parquet yields the records, or logs its error and
\* yields None, on which len(data) raises TypeError; then _scrape_job_info
\* starts (data_processor.py:96-99).
ReadParquet ==
    /\ pc = "read_parquet"
    /\ batch_count' = batch_count + 1
    /\ \/ /\ data' = events[batch_count + 1]
          /\ positions_metadata' = << >>
          /\ results' = << >>
          /\ fetchLog' = << >>
          /\ attemptsLog' = << >>
          /\ idx' = 1
          /\ pc' = "loop"
          /\ UNCHANGED runError
       \/ /\ runError' = "TypeError"
          /\ pc' = "finally"
          /\ UNCHANGED << data, positions_metadata, results, fetchLog, attemptsLog, idx >>
    /\ UNCHANGED << otherVars, inputEvents, events, uploads, blobs >>
    /\ UNCHANGED << scrapeVars, sessionVars >>

\* _scrape_job_info:101-112: the loop takes the next title and calls
\* scraper.scrape (scrapper.py:154-157, up to the sleep).
ScrapeCall ==
    /\ pc = "loop"
    /\ idx <= data
    /\ pc' = "await_scrape"
    /\ scrapePc' = "sleep"
    /\ inflight' = inflight + 1
    /\ sleepsThisCall' = 0
    /\ attempt_number' = 0
    /\ errHistory' = << >>
    /\ waits' = << >>
    /\ fetchError' = NoError
    /\ UNCHANGED << otherVars, inputEvents, events, batch_count, data, idx,
                    positions_metadata, results, fetchLog, attemptsLog, runError, uploads,
                    blobs, scrapeResult, sinceFirst, gap >>
    /\ UNCHANGED sessionVars

\* scrapper.py:158: await asyncio.sleep(self.scrape_rate_limit); then
\* _fetch_page is called and tenacity starts with attempt 1.
RateLimitSleep ==
    /\ scrapePc = "sleep"
    /\ sleepsThisCall' = sleepsThisCall + 1
    /\ sinceFirst' = IF sinceFirst < 0 THEN sinceFirst
                     ELSE sinceFirst + rate_limit_sleep
    /\ attempt_number' = new_retry_state(IF attemptsLog = << >> THEN 0
                                         ELSE attemptsLog[Len(attemptsLog)])
    /\ scrapePc' = "fetch"
    /\ UNCHANGED << otherVars, inputEvents, runVars, sessionVars, scrapeResult,
                    errHistory, waits, fetchError, gap, inflight >>

\* scrapper.py:104-133 under the retry decorator: one attempt of
\* _fetch_page.  The session is created when there is none, the request
\* takes d seconds and ends with outcome o; on an error tenacity decides
\* between raising at once (not retryable), giving up (stop) and backing off.
FetchAttempt ==
    /\ scrapePc = "fetch"
    /\ IF session = NoSession
         THEN /\ sessionsCreated' = sessionsCreated + 1
              /\ session' = sessionsCreated + 1
              /\ openSessions' = openSessions \cup {sessionsCreated + 1}
         ELSE UNCHANGED sessionVars
    /\ \E o \in AttemptOutcomes, d \in 0..MaxNetDelay :
         /\ IF attempt_number = 1
              THEN /\ gap' = sinceFirst
                   /\ sinceFirst' = d
              ELSE /\ sinceFirst' = sinceFirst + d
                   /\ UNCHANGED gap
         /\ IF o = "ok"
              THEN /\ scrapePc' = "extract"
                   /\ UNCHANGED << errHistory, fetchError >>
              ELSE LET hist == Append(errHistory, Error(o, attempt_number)) IN
                   /\ errHistory' = hist
                   /\ IF ~retry_if_exception_type(o)
                        THEN /\ fetchError' = Error(o, attempt_number)
                             /\ scrapePc' = "fetch_raised"
                        ELSE IF stop_after_attempt(attempt_number)
                          THEN /\ fetchError' = reraise(hist)
                               /\ scrapePc' = "fetch_raised"
                          ELSE /\ scrapePc' = "backoff"
                               /\ UNCHANGED fetchError
    /\ UNCHANGED << otherVars, inputEvents, runVars, scrapeResult, attempt_number, waits,
                    sleepsThisCall, inflight >>

\* tenacity sleeps wait_exponential(attempt_number) and starts the next attempt.
Backoff ==
    /\ scrapePc = "backoff"
    /\ waits' = Append(waits, wait_exponential(attempt_number))
    /\ sinceFirst' = sinceFirst + wait_exponential(attempt_number)
    /\ attempt_number' = attempt_number + 1
    /\ scrapePc' = "fetch"
    /\ UNCHANGED << otherVars, inputEvents, runVars, sessionVars, scrapeResult,
                    errHistory, fetchError, sleepsThisCall, gap, inflight >>

\* scrapper.py:161-170: the extractor runs on the html and scrape returns its
\* result.  extract_job_info (extractors.py:216-259) always returns a dict
\* with seven keys, modelled by the title it was made for.
Extract ==
    /\ scrapePc = "extract"
    /\ scrapeResult' = [title |-> idx, batch |-> batch_count]
    /\ scrapePc' = "returned"
    /\ inflight' = inflight - 1
    /\ UNCHANGED << otherVars, inputEvents, runVars, sessionVars, attempt_number,
                    errHistory, waits, fetchError, sleepsThisCall, sinceFirst,
                    gap >>

\* scrapper.py:172-174: the error of _fetch_page is caught by
\* `except Exception`, logged, and scrape returns None.
ScrapeExcept ==
    /\ scrapePc = "fetch_raised"
    /\ scrapeResult' = None
    /\ scrapePc' = "returned"
    /\ inflight' = inflight - 1
    /\ UNCHANGED << otherVars, inputEvents, runVars, sessionVars, attempt_number,
                    errHistory, waits, fetchError, sleepsThisCall, sinceFirst,
                    gap >>

\* _scrape_job_info:109-118: scrape has returned; the metadata is appended
\* when truthy, otherwise a warning is logged; the loop goes on.
LoopBody ==
    /\ pc = "await_scrape"
    /\ AwaitScrape
    /\ positions_metadata' = AppendIfData(positions_metadata, scrapeResult)
    /\ results' = Append(results, scrapeResult)
    /\ fetchLog' = Append(fetchLog, fetchError)
    /\ attemptsLog' = Append(attemptsLog, attempt_number)
    /\ idx' = idx + 1
    /\ pc' = "loop"
    /\ scrapePc' = IF scrapePc = "returned" THEN "idle" ELSE scrapePc
    /\ UNCHANGED << otherVars, inputEvents, events, batch_count, data, runError, uploads,
                    blobs, scrapeResult, attempt_number, errHistory, waits,
                    fetchError, sleepsThisCall, sinceFirst, gap, inflight >>
    /\ UNCHANGED sessionVars

\* _scrape_job_info:120-123 and run:159-162: the loop is over, the list is
\* returned to run, which goes on to the upload.
LoopExit ==
    /\ pc = "loop"
    /\ idx > data
    /\ pc' = "upload"
    /\ UNCHANGED << otherVars, inputEvents, events, batch_count, data, idx,
                    positions_metadata, results, fetchLog, attemptsLog, runError, uploads,
                    blobs >>
    /\ UNCHANGED << scrapeVars, sessionVars >>

\* Variant: the metadata blob is written before the data blob.
upload_meta_first(container, filename, o) ==
    CASE o = "ok" -> container \cup {<<filename, "data">>, <<filename, "meta">>}
      [] o = "data_fails" -> container \cup {<<filename, "meta">>}
      [] OTHER -> container

\* StorageClient.upload (storage_client.py:78-106), the blobs of the
\* container afterwards: upload_blob of the data (line 86), then of the
\* metadata (line 99); the first one that raises ends the call.
upload(container, filename, o) ==
    CASE o = "ok" -> container \cup {<<filename, "data">>, <<filename, "meta">>}
      [] o = "meta_fails" -> container \cup {<<filename, "data">>}
      [] OTHER -> container

\* run:164-171 with StorageClient.upload (storage_client.py:54-106): the
\* data blob is uploaded, then the metadata blob; either upload may raise.
\* The uuid4 file name is modelled by the batch number.
Upload ==
    /\ pc = "upload"
    /\ \E o \in {"ok", "data_fails", "meta_fails"} :
         /\ blobs' = upload(blobs, batch_count, o)
         /\ IF o = "ok"
              THEN /\ uploads' = Append(uploads, batch_count)
                   /\ pc' = NextBatch(batch_count)
                   /\ UNCHANGED runError
              ELSE /\ runError' = IF o = "data_fails" THEN "upload_data"
                                                     ELSE "upload_meta"
                   /\ pc' = "finally"
                   /\ UNCHANGED uploads
    /\ UNCHANGED << otherVars, inputEvents, events, batch_count, data, idx,
                    positions_metadata, results, fetchLog, attemptsLog >>
    /\ UNCHANGED << scrapeVars, sessionVars >>

\* The task running run is cancelled while suspended in scrape (the sleep,
\* the request or the backoff wait).  asyncio.CancelledError is not an
\* Exception: it passes `except Exception` in scrape (scrapper.py:172),
\* _scrape_job_info (data_processor.py:125) and run (data_processor.py:177)
\* and reaches the finally clause of run.
Cancel ==
    /\ pc = "await_scrape"
    /\ scrapePc \in {"sleep", "fetch", "backoff"}
    /\ runError' = "CancelledError"
    /\ pc' = "finally"
    /\ scrapePc' = "idle"
    /\ inflight' = inflight - 1
    /\ UNCHANGED << otherVars, inputEvents, events, batch_count, data, idx,
                    positions_metadata, results, fetchLog, attemptsLog, uploads, blobs,
                    scrapeResult, attempt_number, errHistory, waits,
                    fetchError, sleepsThisCall, sinceFirst, gap >>
    /\ UNCHANGED sessionVars

\* run:177-183: the except clause re-raises, the finally clause awaits
\* scraper.close(); run then returns or raises.
Finally ==
    /\ pc = "finally"
    /\ session' = close(session)
    /\ openSessions' = closeOpen(session, openSessions)
    /\ pc' = IF runError = "none" THEN "returned" ELSE "raised"
    /\ UNCHANGED << otherVars, inputEvents, events, batch_count, data, idx,
                    positions_metadata, results, fetchLog, attemptsLog, runError, uploads,
                    blobs, sessionsCreated >>
    /\ UNCHANGED scrapeVars

Next ==
    \/ Consume
    \/ ReadParquet
    \/ ScrapeCall
    \/ RateLimitSleep
    \/ FetchAttempt
    \/ Backoff
    \/ Extract
    \/ ScrapeExcept
    \/ LoopBody
    \/ LoopExit
    \/ Upload
    \/ Cancel
    \/ Finally

Spec == Init /\ [][Next]_vars

TypeOK ==
    /\ pc \in {"consume", "read_parquet", "loop", "await_scrape", "upload",
               "finally", "returned", "raised"}
    /\ scrapePc \in {"idle", "sleep", "fetch", "backoff", "fetch_raised",
                     "extract", "returned"}
    /\ attempt_number \in 0..MaxAttempts
    /\ session \in 0..sessionsCreated

(***************************************************************************)
(* Text helpers: Python str methods on TLA+ strings                        *)
(***************************************************************************)
Digits == << "0", "1", "2", "3", "4", "5", "6", "7", "8", "9" >>

\* str(i) of a non-negative int: its decimal digits.
RECURSIVE str(_)
str(i) == IF i < 10 THEN Digits[i + 1]
          ELSE str(i \div 10) \o Digits[(i % 10) + 1]

CharAt(s, i) == SubSeq(s, i, i)
IsSpace(c) == c = " "

RECURSIVE LStrip(_)
LStrip(s) == IF Len(s) > 0 /\ IsSpace(CharAt(s, 1))
               THEN LStrip(SubSeq(s, 2, Len(s))) ELSE s

RECURSIVE RStrip(_)
RStrip(s) == IF Len(s) > 0 /\ IsSpace(CharAt(s, Len(s)))
               THEN RStrip(SubSeq(s, 1, Len(s) - 1)) ELSE s

\* str.strip(): leading and trailing whitespace removed.
Strip(s) == RStrip(LStrip(s))

(***************************************************************************)
(* extract_positions (extractors.py:262-281)                               *)
(*                                                                         *)
(* A listing page is modelled by what the function reads of it: whether    *)
(* the <div id="response_jobs"> exists and, in document order, the <a>     *)
(* elements below it, each with or without a <span class="link-text">      *)
(* (with its raw text) and with or without an href attribute.              *)
(***************************************************************************)
MaxAnchors == 3         \* <a> elements on a listing page

Anchor(hasLabel, label, hasHref, href) ==
    [hasLabel |-> hasLabel, label |-> label, hasHref |-> hasHref, href |-> href]

AnchorKinds ==
    { Anchor(TRUE, " QA ", TRUE, "/qa"),
      Anchor(TRUE, "Dev", FALSE, ""),
      Anchor(TRUE, "", TRUE, "/e"),
      Anchor(FALSE, "", TRUE, "/x") }

ListingPages ==
    { [container |-> c, anchors |-> a] :
        c \in BOOLEAN,
        a \in UNION { [1..n -> AnchorKinds] : n \in 0..MaxAnchors } }

\* Variant: an anchor without the span still yields a record.
AnyAnchor(a) == TRUE

\* extractors.py:273-274: link.find("span", class_="link-text") found a tag
\* (a bs4 Tag is truthy even when it has no text).
HasLinkText(a) == a.hasLabel

\* extractors.py:275-279: the record of the anchor at 0-based position i.
PositionRecord(a, i) ==
    [position_title |-> Strip(a.label),
     index |-> str(i),
     job_url |-> IF a.hasHref THEN a.href ELSE ""]

\* extractors.py:272-279: the loop over enumerate(job_links), from the
\* 0-based position i on.
RECURSIVE PositionsFrom(_, _)
PositionsFrom(anchors, i) ==
    IF i >= Len(anchors) THEN << >>
    ELSE IF HasLinkText(anchors[i + 1])
           THEN << PositionRecord(anchors[i + 1], i) >> \o PositionsFrom(anchors, i + 1)
           ELSE PositionsFrom(anchors, i + 1)

extract_positions(p) ==
    IF p.container THEN PositionsFrom(p.anchors, 0) ELSE << >>

InitExtract ==
    /\ ConsumerIdle
    /\ LibIdle
    /\ ScrapperFresh
    /\ PublisherIdle
    /\ ApiIdle
    /\ purePc = "input"
    /\ page \in ListingPages
    /\ positions = << >>
    /\ html = NoHtml
    /\ job = NoJob

\* One call of extract_positions on the page.
ExtractPositions ==
    /\ purePc = "input"
    /\ positions' = extract_positions(page)
    /\ purePc' = "done"
    /\ UNCHANGED << libVars, inputEvents, runVars, scrapeVars, sessionVars, pubVars,
                    apiVars, page, html, job >>

NextExtract == ExtractPositions

SpecExtract == InitExtract /\ [][NextExtract]_vars

(***************************************************************************)
(* Text helpers of the classifier: str.lower, `in`, int and the regular    *)
(* expressions of _extract_years_experience, on TLA+ strings               *)
(***************************************************************************)
UpperAlpha == "ABCDEFGHIJKLMNOPQRSTUVWXYZ"
LowerAlpha == "abcdefghijklmnopqrstuvwxyz"

LowerChar(c) ==
    IF \E i \in 1..26 : CharAt(UpperAlpha, i) = c
      THEN CharAt(LowerAlpha, CHOOSE i \in 1..26 : CharAt(UpperAlpha, i) = c)
      ELSE c

\* str.lower(): every character lowered, computed by halves.
RECURSIVE Lower(_)
Lower(s) ==
    IF Len(s) = 0 THEN ""
    ELSE IF Len(s) = 1 THEN LowerChar(s)
    ELSE Lower(SubSeq(s, 1, Len(s) \div 2))
         \o Lower(SubSeq(s, (Len(s) \div 2) + 1, Len(s)))

\* `kw in text` on Python strings: kw is a substring of text.
Contains(text, kw) ==
    \E i \in 1..(Len(text) - Len(kw) + 1) : SubSeq(text, i, i + Len(kw) - 1) = kw

\* any(keyword in text for keyword in keywords)
AnyIn(keywords, text) == \E i \in DOMAIN keywords : Contains(text, keywords[i])

IsDigit(c) == \E d \in 1..10 : Digits[d] = c
DigitVal(c) == (CHOOSE d \in 1..10 : Digits[d] = c) - 1

\* int(s) of a string of decimal digits.
RECURSIVE int(_)
int(s) == IF Len(s) = 0 THEN 0
          ELSE 10 * int(SubSeq(s, 1, Len(s) - 1)) + DigitVal(CharAt(s, Len(s)))

\* The last position <= q of s that holds no whitespace (0 if there is none):
\* where `\s*` read backwards from q stops.
RECURSIVE SkipSpacesBack(_, _)
SkipSpacesBack(s, q) ==
    IF q >= 1 /\ IsSpace(CharAt(s, q)) THEN SkipSpacesBack(s, q - 1) ELSE q

\* The first position of the run of digits of s that ends at q: where the
\* leftmost match of `(\d+)` ending at q starts.
RECURSIVE DigitRunStart(_, _)
DigitRunStart(s, q) ==
    IF q >= 2 /\ IsDigit(CharAt(s, q - 1)) THEN DigitRunStart(s, q - 1) ELSE q

DigitAt(s, q) == q >= 1 /\ IsDigit(CharAt(s, q))
NumberEndingAt(s, q) == int(SubSeq(s, DigitRunStart(s, q), q))

\* The positions where "years" starts in s.
YearsAt(s) == { p \in 1..(Len(s) - 4) : SubSeq(s, p, p + 4) = "years" }

\* r"(\d+)\+?\s*years" matched up to the "years" at p: the number, or -1.
SingleYears(s, p) ==
    LET q == SkipSpacesBack(s, p - 1)
        d == IF q >= 1 /\ CharAt(s, q) = "+" THEN q - 1 ELSE q
    IN  IF DigitAt(s, d) THEN NumberEndingAt(s, d) ELSE -1

\* r"(\d+)\s*-\s*(\d+)\s*years" matched up to the "years" at p: the larger
\* of the two numbers (max(int(y) for y in match)), or -1.
RangeYears(s, p) ==
    LET q == SkipSpacesBack(s, p - 1) IN
    IF ~DigitAt(s, q) THEN -1
    ELSE LET r == SkipSpacesBack(s, DigitRunStart(s, q) - 1) IN
         IF ~(r >= 1 /\ CharAt(s, r) = "-") THEN -1
         ELSE LET t == SkipSpacesBack(s, r - 1) IN
              IF ~DigitAt(s, t) THEN -1
              ELSE Max(NumberEndingAt(s, t), NumberEndingAt(s, q))

RECURSIVE SetMax(_)
SetMax(S) == IF S = {} THEN 0
             ELSE LET x == CHOOSE x \in S : TRUE IN Max(x, SetMax(S \ {x}))

\* _extract_years_experience (extractors.py:72-91): the largest number found
\* by either pattern, 0 when nothing matches.
extract_years_experience(text) ==
    SetMax({ SingleYears(text, p) : p \in YearsAt(text) }
           \cup { RangeYears(text, p) : p \in YearsAt(text) }
           \cup {0})

(***************************************************************************)
(* Classifier (extractors.py:11-213)                                       *)
(***************************************************************************)
seniority_keywords ==
    << "lead", "senior", "principal", "staff", "architect", "director",
       "head", "chief" >>

complexity_keywords ==
    << "state-of-the-art", "cutting-edge", "research", "phd", "deep learning",
       "machine learning", "ai", "algorithm", "architecture", "distributed",
       "scalability", "real-time", "end-to-end", "full cycle", "generative" >>

engineering_keywords ==
    << "engineer", "developer", "software", "algorithm", "backend", "frontend",
       "full stack", "devops", "sre", "data engineer", "ml", "ai", "nlp",
       "computer vision", "infrastructure", "architect", "technical" >>

product_keywords ==
    << "product manager", "product owner", "pm", "product lead",
       "product strategy", "roadmap", "stakeholder" >>

design_keywords ==
    << "designer", "ux", "ui", "user experience", "user interface",
       "graphic design", "visual design", "design system" >>

operations_keywords ==
    << "operations", "ops manager", "program manager", "project manager",
       "scrum master", "agile coach", "business operations",
       "customer success" >>

lead_title_keywords ==
    << "lead", "principal", "staff", "director", "head", "chief" >>
senior_title_keywords == << "senior", "sr." >>
junior_title_keywords == << "junior", "jr.", "entry", "associate" >>
degree_keywords == << "phd", "ph.d", "m.sc", "master" >>
leadership_keywords ==
    << "lead team", "mentor", "autonomy", "independently", "ownership",
       "drive", "strategy", "architecture decision" >>

\* extractors.py:19-21
skill_score(num_requirements) == Min(35, num_requirements * 5)

\* extractors.py:23-31
experience_score(experience_years) ==
    IF experience_years >= 7 THEN 30
    ELSE IF experience_years >= 5 THEN 25
    ELSE IF experience_years >= 3 THEN 20
    ELSE IF experience_years >= 1 THEN 10
    ELSE 0

\* Variant: every matching keyword adds 20 (no break).
seniority_score_each(title_lower) ==
    20 * Cardinality({ i \in DOMAIN seniority_keywords :
                          Contains(title_lower, seniority_keywords[i]) })

\* extractors.py:43-47: 20 for the first keyword found in the title, once.
seniority_score(title_lower) ==
    IF AnyIn(seniority_keywords, title_lower) THEN 20 ELSE 0

\* extractors.py:66
complexity_count(full_text) ==
    Cardinality({ i \in DOMAIN complexity_keywords :
                     Contains(full_text, complexity_keywords[i]) })

\* Variant: the requirements term has no cap of its own.
terms_sum_uncapped_requirements(title, full_text, requirements) ==
    Len(requirements) * 5
    + experience_score(extract_years_experience(full_text))
    + seniority_score(Lower(title))
    + Min(15, complexity_count(full_text) * 2)

\* extractors.py:17-67: the value of score before the final min.
complexity_terms_sum(title, full_text, requirements) ==
    skill_score(Len(requirements))
    + experience_score(extract_years_experience(full_text))
    + seniority_score(Lower(title))
    + Min(15, complexity_count(full_text) * 2)

\* Variant: no cap on any term and no final clamp.
complexity_score_unclamped(title, full_text, requirements) ==
    Len(requirements) * 5
    + experience_score(extract_years_experience(full_text))
    + seniority_score(Lower(title))
    + complexity_count(full_text) * 2

\* _calculate_complexity_score (extractors.py:11-69)
calculate_complexity_score(title, full_text, requirements) ==
    Min(100, complexity_terms_sum(title, full_text, requirements))

\* Variant: the Product keywords are looked at before the Engineering ones.
categorize_product_first(title, full_text, responsibilities) ==
    LET combined_text == Lower(title \o " " \o full_text) IN
    IF AnyIn(product_keywords, combined_text) THEN "Product"
    ELSE IF AnyIn(engineering_keywords, combined_text) THEN "Engineering"
    ELSE IF AnyIn(design_keywords, combined_text) THEN "Design"
    ELSE IF AnyIn(operations_keywords, combined_text) THEN "Operations"
    ELSE "Other"

\* _categorize_position (extractors.py:94-164)
categorize_position(title, full_text, responsibilities) ==
    LET combined_text == Lower(title \o " " \o full_text) IN
    IF AnyIn(engineering_keywords, combined_text) THEN "Engineering"
    ELSE IF AnyIn(product_keywords, combined_text) THEN "Product"
    ELSE IF AnyIn(design_keywords, combined_text) THEN "Design"
    ELSE IF AnyIn(operations_keywords, combined_text) THEN "Operations"
    ELSE "Other"

\* Variant: the Mid tier asks for fewer than five requirements.
seniority_under_five_requirements(years_exp, has_advanced_degree, has_leadership, num_requirements) ==
    IF years_exp >= 7 \/ (has_advanced_degree /\ years_exp >= 5) THEN "Lead"
    ELSE IF years_exp >= 5 \/ (years_exp >= 3 /\ has_leadership) THEN "Senior"
    ELSE IF years_exp >= 2 \/ (years_exp >= 1 /\ num_requirements < 5) THEN "Mid"
    ELSE "Junior"

\* extractors.py:186-213: the tiers by years, degree and leadership language.
seniority_by_experience(years_exp, has_advanced_degree, has_leadership, num_requirements) ==
    IF years_exp >= 7 \/ (has_advanced_degree /\ years_exp >= 5) THEN "Lead"
    ELSE IF years_exp >= 5 \/ (years_exp >= 3 /\ has_leadership) THEN "Senior"
    ELSE IF years_exp >= 2 \/ (years_exp >= 1 /\ num_requirements <= 5) THEN "Mid"
    ELSE "Junior"

\* Variant: "senior" is looked for before the Lead keywords.
determine_seniority_senior_first(title, full_text, requirements) ==
    LET title_lower == Lower(title)
        combined_text == Lower(title \o " " \o full_text)
    IN  IF AnyIn(senior_title_keywords, title_lower) THEN "Senior"
        ELSE IF AnyIn(lead_title_keywords, title_lower) THEN "Lead"
        ELSE IF AnyIn(junior_title_keywords, title_lower) THEN "Junior"
        ELSE seniority_by_experience(extract_years_experience(full_text),
                                     AnyIn(degree_keywords, combined_text),
                                     AnyIn(leadership_keywords, combined_text),
                                     Len(requirements))

\* _determine_seniority (extractors.py:167-213)
determine_seniority(title, full_text, requirements) ==
    LET title_lower == Lower(title)
        combined_text == Lower(title \o " " \o full_text)
    IN  IF AnyIn(lead_title_keywords, title_lower) THEN "Lead"
        ELSE IF AnyIn(senior_title_keywords, title_lower) THEN "Senior"
        ELSE IF AnyIn(junior_title_keywords, title_lower) THEN "Junior"
        ELSE seniority_by_experience(extract_years_experience(full_text),
                                     AnyIn(degree_keywords, combined_text),
                                     AnyIn(leadership_keywords, combined_text),
                                     Len(requirements))

(***************************************************************************)
(* extract_job_info (extractors.py:216-259)                                *)
(*                                                                         *)
(* A detail page is modelled by what the function reads of it: the text of *)
(* the first <h1> (if any), the <li> texts of the requirements block and   *)
(* of the description block, and the remaining text of the page.           *)
(* soup.get_text() is the text nodes in document order; the whitespace     *)
(* between two elements is modelled by one space.                          *)
(***************************************************************************)
MaxRequirements == 10   \* <li> items of the requirements block

Headings ==
    { [hasH1 |-> FALSE, h1 |-> ""],
      [hasH1 |-> TRUE, h1 |-> " Senior Backend Engineer "],
      [hasH1 |-> TRUE, h1 |-> "Staff Architect"],
      [hasH1 |-> TRUE, h1 |-> "Lead Designer"],
      [hasH1 |-> TRUE, h1 |-> "Junior QA"],
      [hasH1 |-> TRUE, h1 |-> "Product Manager"],
      [hasH1 |-> TRUE, h1 |-> "Associate Director"],
      [hasH1 |-> TRUE, h1 |-> "Sr. Analyst"],
      [hasH1 |-> TRUE, h1 |-> "Senior Team Lead"],
      [hasH1 |-> TRUE, h1 |-> "Office Clerk"] }

Bodies ==
    { "",
      "8 years",
      "5+ years PhD",
      "3 - 6 years mentor",
      "1+ years",
      "3 years mentor",
      "4 years master",
      "5 years",
      "2 years ops manager roadmap",
      "technical ux",
      "research phd distributed real-time 8 years",
      "ai algorithm research phd deep learning machine learning distributed scalability generative 10+ years" }

DetailPages ==
    { [hasH1 |-> t.hasH1, h1 |-> t.h1, body |-> b,
       requirements |-> [i \in 1..n |-> " sql "],
       responsibilities |-> r] :
        t \in Headings, b \in Bodies, n \in 0..MaxRequirements,
        r \in { << >>, << "ship features", "write tests" >> } }

RECURSIVE JoinAll(_)
JoinAll(parts) ==
    IF Len(parts) = 0 THEN ""
    ELSE IF Len(parts) = 1 THEN parts[1]
    ELSE parts[1] \o " " \o JoinAll(Tail(parts))

\* soup.get_text()
GetText(h) ==
    JoinAll((IF h.hasH1 THEN << h.h1 >> ELSE << >>) \o << h.body >>
            \o h.requirements \o h.responsibilities)

StripAll(items) == [i \in DOMAIN items |-> Strip(items[i])]

extract_job_info(h) ==
    LET title == IF h.hasH1 THEN Strip(h.h1) ELSE ""
        full_text == Lower(GetText(h))
        requirements == StripAll(h.requirements)
        responsibilities == StripAll(h.responsibilities)
    IN  [title |-> title,
         complexity_score |-> calculate_complexity_score(title, full_text, requirements),
         category |-> categorize_position(title, full_text, responsibilities),
         seniority_level |-> determine_seniority(title, full_text, requirements),
         requirements_count |-> Len(requirements),
         responsibilities_count |-> Len(responsibilities),
         details |-> [requirements |-> requirements,
                      responsibilities |-> responsibilities]]

InitClassify ==
    /\ ConsumerIdle
    /\ LibIdle
    /\ ScrapperFresh
    /\ PublisherIdle
    /\ ApiIdle
    /\ purePc = "input"
    /\ page = NoPage
    /\ positions = << >>
    /\ html \in DetailPages
    /\ job = NoJob

\* One call of extract_job_info on the page.
ExtractJobInfo ==
    /\ purePc = "input"
    /\ job' = extract_job_info(html)
    /\ purePc' = "done"
    /\ UNCHANGED << libVars, inputEvents, runVars, scrapeVars, sessionVars, pubVars,
                    apiVars, page, positions, html >>

NextClassify == ExtractJobInfo

SpecClassify == InitClassify /\ [][NextClassify]_vars

(***************************************************************************)
(* ScraperPublisher.run (scraper_publisher.py:131-154), as called by the   *)
(* producer's main (producer/main.py:14-20): listing mode                  *)
(***************************************************************************)
InitProducer ==
    /\ ConsumerIdle
    /\ LibIdle
    /\ ScrapperFresh
    /\ ApiIdle
    /\ PureIdle
    /\ pubPc = "start"
    /\ pubError = NoError
    /\ published = << >>

\* run:138-143 and _scrape_positions:81-87: scraper.scrape is called with
\* extract_positions (scrapper.py:154-157, up to the sleep).
PubScrapeCall ==
    /\ pubPc = "start"
    /\ pubPc' = "await_scrape"
    /\ scrapePc' = "sleep"
    /\ inflight' = inflight + 1
    /\ sleepsThisCall' = 0
    /\ attempt_number' = 0
    /\ errHistory' = << >>
    /\ waits' = << >>
    /\ fetchError' = NoError
    /\ UNCHANGED << libVars, inputEvents, runVars, sessionVars, apiVars, pureVars,
                    pubError, published, scrapeResult, sinceFirst, gap >>

\* scrapper.py:161-170 with extract_positions as the extractor: the page
\* that was fetched is any listing page; scrape returns the extracted list.
ExtractListing ==
    /\ pubPc = "await_scrape"
    /\ scrapePc = "extract"
    /\ \E p \in ListingPages :
         /\ page' = p
         /\ positions' = extract_positions(p)
         /\ scrapeResult' = [positions |-> extract_positions(p)]
    /\ scrapePc' = "returned"
    /\ inflight' = inflight - 1
    /\ UNCHANGED << libVars, inputEvents, runVars, sessionVars, pubVars, apiVars,
                    purePc, html, job, attempt_number, errHistory, waits,
                    fetchError, sleepsThisCall, sinceFirst, gap >>

\* _scrape_positions:89-94, run:146-154 and _publish_positions:96-129, all
\* without an await.  len(positions) raises TypeError when scrape returned
\* None; an empty list is not published; otherwise create_parquet and
\* producer.publish run and either may raise.  run has no finally clause and
\* main calls nothing after run.
PubAfterScrape ==
    /\ pubPc = "await_scrape"
    /\ scrapePc = "returned"
    /\ IF scrapeResult = None
         THEN /\ pubError' = Error("TypeError", 0)
              /\ pubPc' = "raised"
              /\ UNCHANGED published
         ELSE IF scrapeResult.positions = << >>
           THEN /\ pubPc' = "returned"
                /\ UNCHANGED << pubError, published >>
           ELSE \E o \in {"ok", "parquet_fails", "publish_fails"} :
                  IF o = "ok"
                    THEN /\ published' = Append(published, scrapeResult.positions)
                         /\ pubPc' = "returned"
                         /\ UNCHANGED pubError
                    ELSE /\ pubError' = Error(o, 0)
                         /\ pubPc' = "raised"
                         /\ UNCHANGED published
    /\ scrapePc' = "idle"
    /\ UNCHANGED << libVars, inputEvents, runVars, sessionVars, apiVars, pureVars,
                    scrapeResult, attempt_number, errHistory, waits,
                    fetchError, sleepsThisCall, sinceFirst, gap, inflight >>

NextProducer ==
    \/ PubScrapeCall
    \/ RateLimitSleep
    \/ FetchAttempt
    \/ Backoff
    \/ ExtractListing
    \/ ScrapeExcept
    \/ PubAfterScrape

SpecProducer == InitProducer /\ [][NextProducer]_vars

(***************************************************************************)
(* One Scrapper instance used by a free caller (scrapper.py:61-78,         *)
(* 135-189): any sequence of __aenter__, scrape, close and __aexit__, one  *)
(* call at a time, with any extractor.                                     *)
(***************************************************************************)
MaxApiOps == 4          \* calls the caller makes on the instance

InitScrapper ==
    /\ ConsumerIdle
    /\ LibIdle
    /\ ScrapperFresh
    /\ PublisherIdle
    /\ PureIdle
    /\ apiOps = 0
    /\ apiLast = "none"
    /\ extractorOut = "none"
    /\ extractorValue = NoValue

\* No call is running on the instance and the caller may make another one.
ApiReady == scrapePc \in {"idle", "returned"} /\ apiOps < MaxApiOps

\* What an extractor may return: an empty list or a list of records.
ExtractorValues ==
    { [positions |-> << >>],
      [positions |-> << PositionRecord(Anchor(TRUE, "Dev", TRUE, "/dev"), 0) >>] }

\* Variant: an empty extraction is turned into None.
ReturnNoneIfEmpty(d) == IF d.positions = << >> THEN None ELSE d

\* scrapper.py:165-170: the warning or info is logged and data is returned.
ReturnData(d) == d

\* __aenter__ (scrapper.py:61-73): a new ClientSession is constructed and
\* assigned to self.session, whatever self.session was.
ApiAEnter ==
    /\ ApiReady
    /\ apiOps' = apiOps + 1
    /\ apiLast' = "__aenter__"
    /\ sessionsCreated' = sessionsCreated + 1
    /\ session' = sessionsCreated + 1
    /\ openSessions' = openSessions \cup {sessionsCreated + 1}
    /\ UNCHANGED << libVars, inputEvents, runVars, scrapeVars, pubVars, pureVars,
                    extractorOut, extractorValue >>

\* scrape is called (scrapper.py:135-157, up to the sleep).
ApiScrape ==
    /\ ApiReady
    /\ apiOps' = apiOps + 1
    /\ apiLast' = "scrape"
    /\ extractorOut' = "none"
    /\ extractorValue' = NoValue
    /\ scrapePc' = "sleep"
    /\ inflight' = inflight + 1
    /\ sleepsThisCall' = 0
    /\ attempt_number' = 0
    /\ errHistory' = << >>
    /\ waits' = << >>
    /\ fetchError' = NoError
    /\ UNCHANGED << libVars, inputEvents, runVars, sessionVars, pubVars, pureVars,
                    scrapeResult, sinceFirst, gap >>

\* scrapper.py:158 and 172-174: asyncio.sleep raises (scrape_rate_limit is
\* no valid delay); the exception is caught and scrape returns None.
ApiSleepRaises ==
    /\ scrapePc = "sleep"
    /\ scrapeResult' = None
    /\ scrapePc' = "returned"
    /\ inflight' = inflight - 1
    /\ UNCHANGED << libVars, inputEvents, runVars, sessionVars, pubVars, apiVars,
                    pureVars, attempt_number, errHistory, waits, fetchError,
                    sleepsThisCall, sinceFirst, gap >>

\* scrapper.py:161-174: the extractor runs on the html; it returns a value,
\* which scrape returns, or raises, on which scrape returns None.
ExtractAny ==
    /\ scrapePc = "extract"
    /\ \/ \E v \in ExtractorValues :
            /\ extractorOut' = "returned"
            /\ extractorValue' = v
            /\ scrapeResult' = ReturnData(v)
       \/ /\ extractorOut' = "raised"
          /\ extractorValue' = NoValue
          /\ scrapeResult' = None
    /\ scrapePc' = "returned"
    /\ inflight' = inflight - 1
    /\ UNCHANGED << libVars, inputEvents, runVars, sessionVars, pubVars, pureVars,
                    apiOps, apiLast, attempt_number, errHistory, waits, fetchError,
                    sleepsThisCall, sinceFirst, gap >>

\* close (scrapper.py:176-189).
ApiClose ==
    /\ ApiReady
    /\ apiOps' = apiOps + 1
    /\ apiLast' = "close"
    /\ session' = close(session)
    /\ openSessions' = closeOpen(session, openSessions)
    /\ UNCHANGED << libVars, inputEvents, runVars, scrapeVars, pubVars, pureVars,
                    sessionsCreated, extractorOut, extractorValue >>

\* __aexit__ (scrapper.py:75-78): awaits self.close().
ApiAExit ==
    /\ ApiReady
    /\ apiOps' = apiOps + 1
    /\ apiLast' = "__aexit__"
    /\ session' = close(session)
    /\ openSessions' = closeOpen(session, openSessions)
    /\ UNCHANGED << libVars, inputEvents, runVars, scrapeVars, pubVars, pureVars,
                    sessionsCreated, extractorOut, extractorValue >>

NextScrapper ==
    \/ ApiAEnter
    \/ ApiScrape
    \/ ApiSleepRaises
    \/ RateLimitSleep
    \/ FetchAttempt
    \/ Backoff
    \/ ExtractAny
    \/ ScrapeExcept
    \/ ApiClose
    \/ ApiAExit

SpecScrapper == InitScrapper /\ [][NextScrapper]_vars

(***************************************************************************)
(* EventsConsumer (events_consumer.py:20-136)                              *)
(*                                                                         *)
(* EventHubConsumerClient.receive_batch blocks, calling on_event_batch     *)
(* with up to max_batch_size events whenever events are there, and with an *)
(* empty list when max_wait_time went by without any; it returns once the  *)
(* client is closed.  An event is modelled by its body and the consume     *)
(* call during which it was received.                                      *)
(***************************************************************************)
max_events == 2         \* config consumer.max_events
MaxConsumeCalls == 2    \* consume calls made on one EventsConsumer

EventBodies == 0..MaxTitles
EventBatches(n) == [1..n -> [call : {hubCalls}, body : EventBodies]]

\* _consume_callback:89-92: every event of the batch is appended.
consume_callback(collected, batch) == collected \o batch

\* _consume_callback:95-97: the client is closed once max_events are there.
closes_client(collected) == Len(collected) >= max_events

InitHub ==
    /\ ConsumerIdle
    /\ ScrapperFresh
    /\ PublisherIdle
    /\ ApiIdle
    /\ PureIdle
    /\ ParquetIdle
    /\ hubPc = "idle"
    /\ collected_data = << >>
    /\ hubCalls = 0
    /\ hubReturned = << >>
    /\ lastBatch = -1

notHubVars == << inputEvents, runVars, scrapeVars, sessionVars, pubVars,
                apiVars, pureVars, parquetVars >>

\* consume:111-126: collected_data is reset, the client is entered and
\* receive_batch is called.
HubConsume ==
    /\ hubPc \in {"idle", "returned", "raised"}
    /\ hubCalls < MaxConsumeCalls
    /\ hubCalls' = hubCalls + 1
    /\ collected_data' = << >>
    /\ hubReturned' = << >>
    /\ lastBatch' = -1
    /\ hubPc' = "receiving"
    /\ UNCHANGED notHubVars

\* receive_batch hands a batch of 1..max_batch_size events to
\* _consume_callback (events_consumer.py:87-97, max_batch_size at 123).
HubEvents ==
    /\ hubPc = "receiving"
    /\ \E n \in 1..max_events : \E batch \in EventBatches(n) :
         /\ collected_data' = consume_callback(collected_data, batch)
         /\ lastBatch' = n
         /\ hubPc' = IF closes_client(consume_callback(collected_data, batch))
                        THEN "closed" ELSE "receiving"
    /\ UNCHANGED << notHubVars, hubCalls, hubReturned >>

\* max_wait_time went by without an event (events_consumer.py:125):
\* receive_batch calls _consume_callback with an empty list and goes on.
HubTimeout ==
    /\ hubPc = "receiving"
    /\ collected_data' = consume_callback(collected_data, << >>)
    /\ lastBatch' = 0
    /\ hubPc' = IF closes_client(consume_callback(collected_data, << >>))
                   THEN "closed" ELSE "receiving"
    /\ UNCHANGED << notHubVars, hubCalls, hubReturned >>

\* consume:128-136: the client was closed, receive_batch returns, the
\* with block is left and collected_data is returned.
HubReturn ==
    /\ hubPc = "closed"
    /\ hubReturned' = collected_data
    /\ hubPc' = "returned"
    /\ UNCHANGED << notHubVars, hubCalls, collected_data, lastBatch >>

\* consume:132-134: receive_batch raises (connection or authentication
\* failure); consume logs and re-raises.
HubRaise ==
    /\ hubPc = "receiving"
    /\ hubPc' = "raised"
    /\ UNCHANGED << notHubVars, hubCalls, collected_data, hubReturned,
                    lastBatch >>

NextHub ==
    \/ HubConsume
    \/ HubEvents
    \/ HubTimeout
    \/ HubReturn
    \/ HubRaise

SpecHub == InitHub /\ [][NextHub]_vars

\* The wait timer of receive_batch fires and a returning call returns;
\* whether events arrive is up to the senders.
SpecHubFair == SpecHub /\ WF_vars(HubTimeout) /\ WF_vars(HubReturn)

(***************************************************************************)
(* create_parquet / read_parquet (parquet_tools.py:16-55) on the position  *)
(* lists of extract_positions, under the schema of producer/main.py:18     *)
(*                                                                         *)
(* The bytes are modelled by the table that was written: its columns in    *)
(* schema order, each with its name and its values in row order.           *)
(* pa.Table.from_pandas(df, schema=schema) takes the columns the schema    *)
(* names from the data frame, in the schema's order.                       *)
(***************************************************************************)
schema == << "position_title", "index" >>

\* What read_parquet returns when reading fails (parquet_tools.py:51-55).
NoRecords == << [failed |-> TRUE] >>

\* parquet_tools.py:21-36
create_parquet(rows, sch) ==
    IF Len(rows) = 0 THEN NoBytes
    ELSE [table |-> [c \in 1..Len(sch) |->
                        [name |-> sch[c],
                         values |-> [r \in 1..Len(rows) |-> rows[r][sch[c]]]]],
          valid |-> TRUE]

\* parquet_tools.py:43-55: one dict per row, keyed by the column names.
read_parquet(parquet) ==
    IF ~parquet.valid THEN NoRecords
    ELSE LET table == parquet.table
             names == { table[c].name : c \in DOMAIN table }
             column(n) == table[CHOOSE c \in DOMAIN table : table[c].name = n]
         IN  [r \in 1..Len(table[1].values) |->
                 [n \in names |-> column(n).values[r]]]

InitParquet ==
    /\ ConsumerIdle
    /\ HubIdle
    /\ ScrapperFresh
    /\ PublisherIdle
    /\ ApiIdle
    /\ purePc = "input"
    /\ page \in ListingPages
    /\ positions = << >>
    /\ html = NoHtml
    /\ job = NoJob
    /\ pqPc = "start"
    /\ parquet_data = NoBytes
    /\ records = << >>

\* scraper_publisher.py:114: the scraped list is encoded.
CreateParquet ==
    /\ purePc = "done"
    /\ pqPc = "start"
    /\ parquet_data' = create_parquet(positions, schema)
    /\ pqPc' = "encoded"
    /\ UNCHANGED << inputEvents, runVars, scrapeVars, sessionVars, pubVars,
                    apiVars, pureVars, hubVars, records >>

\* scraper_publisher.py:116-123 and data_processor.py:155: bytes that were
\* created are published, and the consumer decodes them.
ReadBack ==
    /\ pqPc = "encoded"
    /\ parquet_data # NoBytes
    /\ records' = read_parquet(parquet_data)
    /\ pqPc' = "decoded"
    /\ UNCHANGED << inputEvents, runVars, scrapeVars, sessionVars, pubVars,
                    apiVars, pureVars, hubVars, parquet_data >>

NextParquet ==
    \/ ExtractPositions
    \/ CreateParquet
    \/ ReadBack

SpecParquet == InitParquet /\ [][NextParquet]_vars

(***************************************************************************)
(* Claims                                                                  *)
(***************************************************************************)
Retryable(hist) == \A k \in DOMAIN hist : retry_if_exception_type(hist[k].kind)
NonEmptyResult(r) == r # None

\* C1: one call of Scrapper._fetch_page performs at most 3 attempts, whatever
\* the sequence of retryable outcomes; a 4th attempt is never made.
C1_AtMostThreeAttempts ==
    /\ attempt_number <= 3
    /\ Len(errHistory) <= 3
    /\ Len(waits) <= 2

C1_Witness ==
    /\ scrapePc = "fetch_raised"
    /\ Len(errHistory) = 3
    /\ Retryable(errHistory)
    /\ attempt_number = 3

\* C2 (as claimed): an attempt that ends with a non-2xx HTTP status makes the
\* fetch fail at once: it is the last attempt of the call and no backoff
\* wait follows it.
C2_HttpStatusFailsImmediately ==
    \A k \in DOMAIN errHistory :
        errHistory[k].kind = "http" =>
            /\ k = Len(errHistory)
            /\ scrapePc # "backoff"

\* C2 (amended): a non-2xx HTTP status is retried like a network error: the
\* fetch fails with a status error only when that error came from the third
\* attempt, after two backoff waits.
C2_HttpStatusRetried ==
    fetchError.kind = "http" =>
        /\ fetchError.attempt = 3
        /\ Len(errHistory) = 3
        /\ Len(waits) = 2

C2_Witness ==
    /\ scrapePc = "fetch_raised"
    /\ fetchError.kind = "http"
    /\ errHistory[1].kind = "http"
    /\ Len(waits) = 2

\* C3: in _scrape_job_info a failed fetch of any title aborts the batch: no
\* later title is fetched, the error is raised to the caller and no list is
\* returned; the failure is never turned into a skipped item.
C3_FetchFailureAbortsBatch ==
    \A i \in DOMAIN fetchLog :
        fetchLog[i] # NoError =>
            /\ runError # "none"
            /\ pc \in {"finally", "raised"}

\* C4: whenever DataProcessor.run has returned or raised, Scrapper.close has
\* run and the scraper's session is None.
C4_SessionClosedOnExit ==
    pc \in {"returned", "raised"} =>
        /\ session = NoSession
        /\ openSessions = {}

C4_Witness ==
    /\ pc = "raised"
    /\ runError \in {"upload_data", "upload_meta", "CancelledError"}
    /\ sessionsCreated = 1
    /\ session = NoSession

\* C5: in every scrape call the rate-limit sleep completes before the first
\* network attempt and happens exactly once whatever the retries, so the
\* first attempts of two consecutive scrape calls are at least
\* scrape_rate_limit seconds apart.
C5_RateLimitBeforeFirstAttempt ==
    /\ scrapePc \in {"fetch", "backoff", "fetch_raised", "extract", "returned"}
          => sleepsThisCall = 1
    /\ scrapePc = "sleep" => sleepsThisCall = 0 /\ attempt_number = 0
    /\ gap = -1 \/ gap >= scrape_rate_limit

C5_Witness ==
    /\ gap = scrape_rate_limit
    /\ Len(waits) = 2
    /\ sleepsThisCall = 1
    /\ scrapePc = "fetch"

\* C6: during a batch at most one fetch is in flight: the sleep and the
\* attempts for title i+1 start only after scrape for title i has returned
\* and its result has been handled.
C6_OneFetchInFlight ==
    /\ inflight <= 1
    /\ ScrapeActive =>
          /\ pc = "await_scrape"
          /\ inflight = 1
          /\ Len(results) = idx - 1

C6_Witness ==
    /\ inflight = 1
    /\ idx = 2
    /\ scrapePc = "fetch"
    /\ Len(results) = 1

\* C7: when all 3 attempts fail with retryable errors, _fetch_page fails with
\* exactly the error of the third attempt.
C7_LastErrorPropagates ==
    (scrapePc = "fetch_raised" /\ Len(errHistory) = 3 /\ Retryable(errHistory))
        => /\ fetchError = errHistory[3]
           /\ fetchError.attempt = 3

C7_Witness ==
    /\ scrapePc = "fetch_raised"
    /\ Len(errHistory) = 3
    /\ Retryable(errHistory)
    /\ errHistory[1].kind = "network"
    /\ errHistory[3].kind = "timeout"
    /\ fetchError.kind = "timeout"

\* C8: every delay waited between two consecutive attempts of a fetch is at
\* least 2 and at most 10 seconds.
C8_DelayWithinBounds ==
    \A k \in DOMAIN waits : 2 <= waits[k] /\ waits[k] <= 10

C8_Witness ==
    /\ Len(waits) = 2
    /\ scrapePc = "extract"

\* C9 (as claimed): the delay after the first failed attempt is 2 seconds and
\* the delay after the second failed attempt is twice that, 4 seconds.
C9_DelayDoubles ==
    /\ Len(waits) >= 1 => waits[1] = 2
    /\ Len(waits) >= 2 => waits[2] = 4

\* C9 (amended): the delay after failed attempt n is max(2, min(10, 2^(n-1)))
\* seconds: 2 seconds after the first failed attempt and again 2 seconds
\* after the second.
C9_DelayFlooredExponential ==
    /\ Len(waits) >= 1 => waits[1] = 2
    /\ Len(waits) >= 2 => waits[2] = 2

C9_Witness ==
    /\ waits = << 2, 2 >>
    /\ scrapePc = "fetch"
    /\ attempt_number = 3

LabelledAnchors(p) == SelectSeq(p.anchors, LAMBDA a : a.hasLabel)

\* C15: the index values of the records returned by extract_positions are
\* exactly "0","1",...,"N-1" in order, N being the number of records: an
\* anchor skipped for lacking a label consumes no index slot.
C15_IndexDense ==
    purePc = "done" =>
        \A k \in DOMAIN positions : positions[k].index = str(k - 1)

\* C16: extract_positions returns one record per anchor of the container
\* that has a label node, in document order, with the trimmed label text as
\* title and the href as URL; unlabelled anchors give no record and a page
\* without the container gives the empty sequence; 3 labelled anchors give
\* 3 records with index "0","1","2".
C16_OneRecordPerLabelledAnchor ==
    purePc = "done" =>
        LET labelled == LabelledAnchors(page) IN
        /\ ~page.container => positions = << >>
        /\ page.container =>
              /\ Len(positions) = Len(labelled)
              /\ \A k \in DOMAIN positions :
                    /\ positions[k].position_title = Strip(labelled[k].label)
                    /\ positions[k].job_url =
                          (IF labelled[k].hasHref THEN labelled[k].href ELSE "")
              /\ (Len(page.anchors) = 3 /\ Len(labelled) = 3) =>
                    /\ positions[1].index = "0"
                    /\ positions[2].index = "1"
                    /\ positions[3].index = "2"

C16_Witness ==
    /\ purePc = "done"
    /\ page.container
    /\ Len(page.anchors) = 3
    /\ Len(positions) = 3
    /\ positions[1].position_title = "QA"
    /\ positions[3].index = "2"

\* C11: in listing mode, when the fetch of the listing page fails, the error
\* raised to the caller of ScraperPublisher.run is that fetch error itself.
C11_FetchErrorReachesCaller ==
    fetchError # NoError =>
        /\ pubPc # "returned"
        /\ pubPc = "raised" => pubError = fetchError

\* C12: when ScraperPublisher.run has returned or raised, the session its
\* Scrapper created for the listing fetch has been closed.
C12_PublisherSessionClosed ==
    pubPc \in {"returned", "raised"} =>
        /\ session = NoSession
        /\ openSessions = {}

\* C13: one Scrapper instance owns at most one open session: no session is
\* created while an earlier session of the instance is still open.
C13_AtMostOneOpenSession ==
    /\ Cardinality(openSessions) <= 1
    /\ openSessions \subseteq {session}

\* C14: Scrapper.scrape never raises: when the sleep, the fetch or the
\* extractor raised an Exception it returns None, otherwise it returns
\* exactly what the extractor returned.
C14_ScrapeReturnsNoneOrData ==
    scrapePc = "returned" =>
        /\ extractorOut = "returned" =>
              scrapeResult = extractorValue /\ fetchError = NoError
        /\ extractorOut # "returned" => scrapeResult = None
        /\ fetchError # NoError => scrapeResult = None

C14_Witness ==
    /\ scrapePc = "returned"
    /\ extractorOut = "returned"
    /\ extractorValue.positions = << >>
    /\ scrapeResult = [positions |-> << >>]
    /\ Len(errHistory) = 2

\* The arguments extract_job_info passes to the classifier for the page.
JobTitle == IF html.hasH1 THEN Strip(html.h1) ELSE ""
JobText == Lower(GetText(html))
JobYears == extract_years_experience(JobText)
Classified == purePc = "done" /\ html # NoHtml

\* C17: for all titles, texts and requirement lists the complexity score is
\* an integer in [0,100].
C17_ScoreInRange ==
    Classified => job.complexity_score \in 0..100

C17_Witness ==
    /\ Classified
    /\ job.complexity_score = 100
    /\ job.requirements_count = 10

\* C18: the complexity score is min(100, R + E + S + K): R = min(35, 5 per
\* requirement), E the single highest experience tier reached (30/25/20/10/0
\* at 7/5/3/1 years), S = 20 once if the title holds a seniority keyword,
\* K = min(15, 2 per complexity keyword found in the text).
C18_ScoreFormula ==
    Classified =>
        LET n == Len(html.requirements)
            text == JobText
            years == extract_years_experience(text)
            title_lower == Lower(JobTitle)
            R == IF 5 * n > 35 THEN 35 ELSE 5 * n
            E == CASE years >= 7 -> 30
                   [] years \in 5..6 -> 25
                   [] years \in 3..4 -> 20
                   [] years \in 1..2 -> 10
                   [] OTHER -> 0
            S == IF \E w \in {"lead", "senior", "principal", "staff",
                              "architect", "director", "head", "chief"} :
                       Contains(title_lower, w)
                   THEN 20 ELSE 0
            found == { i \in DOMAIN complexity_keywords :
                          Contains(text, complexity_keywords[i]) }
            K == IF 2 * Cardinality(found) > 15 THEN 15
                 ELSE 2 * Cardinality(found)
            total == R + E + S + K
        IN  /\ job.complexity_score = (IF total > 100 THEN 100 ELSE total)
            /\ (n = 0 /\ years = 0 /\ S = 0 /\ found = {})
                  => job.complexity_score = 0

C18_Witness ==
    /\ Classified
    /\ job.title = "Staff Architect"
    /\ job.requirements_count = 10
    /\ JobYears = 8
    /\ html.body = "research phd distributed real-time 8 years"
    /\ job.complexity_score = 93

\* C19: _categorize_position is total and follows a fixed priority: it
\* returns the first of Engineering, Product, Design, Operations whose
\* keyword set has a match in title + text, and Other when none has, also
\* for empty strings.
C19_CategoryPriority ==
    Classified =>
        LET text == Lower(JobTitle \o " " \o JobText)
            eng == AnyIn(engineering_keywords, text)
            prod == AnyIn(product_keywords, text)
            des == AnyIn(design_keywords, text)
            ops == AnyIn(operations_keywords, text)
        IN  /\ job.category \in {"Engineering", "Product", "Design",
                                 "Operations", "Other"}
            /\ eng => job.category = "Engineering"
            /\ (~eng /\ prod) => job.category = "Product"
            /\ (~eng /\ ~prod /\ des) => job.category = "Design"
            /\ (~eng /\ ~prod /\ ~des /\ ops) => job.category = "Operations"
            /\ (~eng /\ ~prod /\ ~des /\ ~ops) => job.category = "Other"
            /\ (JobTitle = "" /\ html.body = "" /\ Len(html.requirements) = 0
                  /\ Len(html.responsibilities) = 0) => job.category = "Other"

C19_Witness ==
    /\ Classified
    /\ job.title = "Product Manager"
    /\ html.body = "technical ux"
    /\ job.category = "Engineering"

\* C20: in _determine_seniority the title overrides come before any
\* years-based tier, in the order Lead keywords, "senior"/"sr.", Junior
\* keywords: a Lead keyword in the title gives Lead whatever else it holds,
\* "senior"/"sr." without a Lead keyword gives Senior whatever the years,
\* only a Junior keyword gives Junior whatever the years.
C20_TitleOverrides ==
    Classified =>
        LET t == Lower(JobTitle)
            lead == \E w \in {"lead", "principal", "staff", "director",
                              "head", "chief"} : Contains(t, w)
            senior == Contains(t, "senior") \/ Contains(t, "sr.")
            junior == \E w \in {"junior", "jr.", "entry", "associate"} :
                          Contains(t, w)
        IN  /\ lead => job.seniority_level = "Lead"
            /\ (~lead /\ senior) => job.seniority_level = "Senior"
            /\ (~lead /\ ~senior /\ junior) => job.seniority_level = "Junior"

C20_Witness ==
    /\ Classified
    /\ job.title = "Senior Backend Engineer"
    /\ html.body = "8 years"
    /\ JobYears = 8
    /\ job.seniority_level = "Senior"

TitleOverride ==
    \E w \in {"lead", "principal", "staff", "director", "head", "chief",
              "senior", "sr.", "junior", "jr.", "entry", "associate"} :
        Contains(Lower(JobTitle), w)
JobCombined == Lower(JobTitle \o " " \o JobText)
JobDegree == \E w \in {"phd", "ph.d", "m.sc", "master"} : Contains(JobCombined, w)
JobLeadership ==
    \E w \in {"lead team", "mentor", "autonomy", "independently", "ownership",
              "drive", "strategy", "architecture decision"} :
        Contains(JobCombined, w)

\* C21: when no title override matches, the seniority is Lead if years >= 7
\* or (degree language and years >= 5); otherwise Senior if years >= 5 or
\* (years >= 3 and leadership language); otherwise Mid if years >= 2 or
\* (years >= 1 and at most 5 requirements); otherwise Junior. The result
\* is always one of Junior, Mid, Senior, Lead.
C21_ExperienceTiers ==
    Classified =>
        /\ job.seniority_level \in {"Junior", "Mid", "Senior", "Lead"}
        /\ ~TitleOverride =>
             LET lead == JobYears >= 7 \/ (JobDegree /\ JobYears >= 5)
                 senior == JobYears >= 5 \/ (JobYears >= 3 /\ JobLeadership)
                 mid == JobYears >= 2
                        \/ (JobYears >= 1 /\ job.requirements_count <= 5)
             IN  /\ lead => job.seniority_level = "Lead"
                 /\ (~lead /\ senior) => job.seniority_level = "Senior"
                 /\ (~lead /\ ~senior /\ mid) => job.seniority_level = "Mid"
                 /\ (~lead /\ ~senior /\ ~mid) => job.seniority_level = "Junior"

\* one year of experience and exactly five requirements: Mid
C21_Witness ==
    /\ Classified
    /\ ~TitleOverride
    /\ JobYears = 1
    /\ job.requirements_count = 5
    /\ job.seniority_level = "Mid"

\* C22: EventsConsumer.consume always eventually returns: it blocks only
\* until max_events events have been collected or max_wait_time has
\* expired, also when fewer than max_events events ever arrive (a call
\* that ends by raising counts as ended).
C22_ConsumeReturns ==
    (hubPc = "receiving") ~> (hubPc \in {"returned", "raised"})

\* C23: the list consume returns never holds more than max_events events,
\* and it holds only events received during that consume call.
C23_AtMostMaxEvents ==
    hubPc = "returned" =>
        /\ Len(hubReturned) <= max_events
        /\ \A i \in DOMAIN hubReturned : hubReturned[i].call = hubCalls

\* C24: for every non-empty list of records of extract_positions, encoding
\* it with create_parquet under the pipeline's schema and decoding the
\* bytes with read_parquet reproduces every field of every record with the
\* same value, in the same order.
C24_RoundTrip ==
    (pqPc = "decoded" /\ Len(positions) > 0) => records = positions

PreClampSum == complexity_terms_sum(JobTitle, JobText, job.details.requirements)
AllTermsAtCap ==
    /\ job.requirements_count >= 7
    /\ JobYears >= 7
    /\ \E w \in {"lead", "senior", "principal", "staff", "architect",
                  "director", "head", "chief"} : Contains(Lower(JobTitle), w)
    /\ Cardinality({ i \in DOMAIN complexity_keywords :
                        Contains(JobText, complexity_keywords[i]) }) >= 8

\* C25 as stated: there are inputs for which the sum of the four capped
\* terms exceeds 100, so that min(100, ...) changes the result.  No term
\* can be larger than its cap, so the sum is largest where every term is at
\* its cap: the statement says that the sum exceeds 100 there.
C25_SumCanExceedHundred ==
    (Classified /\ AllTermsAtCap) => PreClampSum > 100

\* C25 as the code has it: the four caps add up to 100, the sum of the four
\* capped terms never exceeds 100 and min(100, ...) never changes it.
C25_SumAtMostHundred ==
    Classified =>
        /\ PreClampSum <= 100
        /\ job.complexity_score = PreClampSum

C25_Witness ==
    /\ Classified
    /\ AllTermsAtCap
    /\ PreClampSum = 100
    /\ job.complexity_score = 100

\* C26: when an attempt of a fetch fails with an unanticipated error
\* (neither an aiohttp client error nor a timeout), _fetch_page propagates
\* that error at once: the attempt is the last one of the call, no backoff
\* wait follows it, and when it is the first attempt exactly one attempt is
\* made and no wait at all.
C26_UnexpectedPropagatesAtOnce ==
    \A i \in DOMAIN errHistory :
        errHistory[i].kind = "unexpected" =>
            /\ i = Len(errHistory)
            /\ attempt_number = i
            /\ Len(waits) = i - 1
            /\ scrapePc \notin {"fetch", "backoff", "extract"}
            /\ fetchError = errHistory[i]

C26_Witness ==
    /\ scrapePc = "fetch_raised"
    /\ errHistory = << Error("unexpected", 1) >>
    /\ fetchError.kind = "unexpected"
    /\ attempt_number = 1
    /\ waits = << >>

RECURSIVE SumSeq(_)
SumSeq(q) == IF q = << >> THEN 0 ELSE q[1] + SumSeq(Tail(q))

\* C27: the retry budget is per fetch call: the attempt counter starts at
\* 1 for every call of _fetch_page and counts the attempts of that call
\* only, so a call gives up on retryable errors only after 3 attempts of
\* its own whatever earlier titles spent; an attempt that succeeds ends
\* the call with no further attempt or wait; a batch of N titles performs
\* at most 3*N network attempts.
C27_BudgetPerCall ==
    /\ scrapePc = "fetch" =>
          (attempt_number = Len(errHistory) + 1 /\ Len(waits) = Len(errHistory))
    /\ scrapePc \in {"backoff", "fetch_raised"} =>
          attempt_number = Len(errHistory)
    /\ (scrapePc = "fetch_raised" /\ Retryable(errHistory)) =>
          Len(errHistory) = 3
    /\ (scrapePc \in {"extract", "returned"} /\ fetchError = NoError) =>
          (attempt_number = Len(errHistory) + 1 /\ Len(waits) = Len(errHistory))
    /\ \A i \in DOMAIN attemptsLog : attemptsLog[i] \in 1..3
    /\ pc \in {"loop", "await_scrape", "upload"} =>
          /\ Len(attemptsLog) <= data
          /\ SumSeq(attemptsLog)
               + (IF pc = "await_scrape" THEN attempt_number ELSE 0) <= 3 * data

\* the second title of a batch reaches its third attempt after the first
\* title has used up three
C27_Witness ==
    /\ pc = "await_scrape"
    /\ idx = 2
    /\ attemptsLog = << 3 >>
    /\ scrapePc = "fetch"
    /\ attempt_number = 3
    /\ Len(waits) = 2

CloseStep == apiOps' = apiOps + 1 /\ apiLast' \in {"close", "__aexit__"}
EnterStep == apiOps' = apiOps + 1 /\ apiLast' = "__aenter__"
FetchStep == scrapePc = "fetch" /\ scrapePc' # "fetch"

SessionStep ==
    /\ (session # NoSession /\ ~CloseStep /\ ~EnterStep) =>
          (session' = session /\ sessionsCreated' = sessionsCreated)
    /\ CloseStep => session' = NoSession
    /\ (CloseStep /\ session = NoSession) =>
          UNCHANGED << sessionVars, scrapeVars >>
    /\ (FetchStep /\ session = NoSession) =>
          /\ session' = sessionsCreated + 1
          /\ sessionsCreated' = sessionsCreated + 1
          /\ session' \in openSessions'

\* C28: fetches on one Scrapper with no close in between use the session
\* the first of them created: a fetch (first attempt or retry) that finds a
\* session uses it and creates none, and nothing but close and the context
\* manager replaces a session; close() with no session changes nothing, so
\* a second close is safe; after close() the session is None, the session
\* the instance holds is never a closed one, and a fetch that finds no
\* session creates a fresh one.
C28_SessionReuseAndClose ==
    /\ [](session # NoSession => session \in openSessions)
    /\ [][SessionStep]_vars

\* after a close, the scrape that is the fourth call on the instance
\* fetches on a second session, the only one open
C28_Witness ==
    /\ apiOps = 4
    /\ apiLast = "scrape"
    /\ scrapePc = "extract"
    /\ sessionsCreated = 2
    /\ session = 2
    /\ openSessions = {2}

\* C29: StorageClient.upload writes the data blob before the metadata
\* blob: a blob "<filename>_meta.json" exists only if the data blob
\* "<filename>" exists; when the data upload fails neither blob is written;
\* when the metadata upload fails upload raises and the data blob stays.
C29_DataBeforeMeta ==
    /\ \A b \in blobs : b[2] = "meta" => << b[1], "data" >> \in blobs
    /\ runError = "upload_data" =>
          /\ << batch_count, "data" >> \notin blobs
          /\ << batch_count, "meta" >> \notin blobs
          /\ pc \in {"finally", "raised"}
    /\ runError = "upload_meta" =>
          /\ << batch_count, "data" >> \in blobs
          /\ << batch_count, "meta" >> \notin blobs
          /\ pc \in {"finally", "raised"}

\* the metadata upload of the second event failed
C29_Witness ==
    /\ pc = "raised"
    /\ runError = "upload_meta"
    /\ blobs = { << 1, "data" >>, << 1, "meta" >>, << 2, "data" >> }

====
